---- MODULE Spec2Model ----
(***************************************************************************)
(* A model of sunflower_bot.py: the farm-data fetch, the classification of *)
(* tree coordinates, the axe purchase policy and the browser session that  *)
(* run_bot drives.                                                         *)
(*                                                                         *)
(* Python values are tagged records (field t is the Python type).  A dict  *)
(* is a record over the keys the program can read, a key that is not in    *)
(* the dict holding Absent, with the order its keys were inserted in.  A   *)
(* str is the sequence of its characters.  A float is an infinity, a NaN   *)
(* or the shortest decimal n * 10^e that rounds to it (the one repr()      *)
(* writes); the ints of the model, n among them, stay below 2^31.  An      *)
(* operation that can raise returns [ok |-> TRUE, val |-> v] or            *)
(* [ok |-> FALSE, err |-> <exception type>].                               *)
(***************************************************************************)
EXTENDS Integers, Sequences, FiniteSets

\* ------------------------------------------------------------ bounds
\* Longest "trees" list of a farm-data response.
MaxTrees == 2
\* Longest coordinate sequence handed to chop_trees by a direct caller.
MaxChop == 3

\* ------------------------------------------------------------ values
Absent == [t |-> "absent"]
Null == [t |-> "null"]
IntV(n) == [t |-> "int", n |-> n]
\* The float of integer value n.
FloatV(n) == [t |-> "float", k |-> "num", n |-> n, e |-> 0]
\* float("inf") (sign 1) and float("-inf") (sign -1)
FloatInf(sign) == [t |-> "float", k |-> "inf", n |-> sign, e |-> 0]
\* float("nan")
FloatNan == [t |-> "float", k |-> "nan", n |-> 0, e |-> 0]

RECURSIVE Pow10(_)
Pow10(k) == IF k = 0 THEN 1 ELSE 10 * Pow10(k - 1)

\* ---- numbers too long for an int: sequences of base-10000 limbs, the least
\* significant first
\* 2^1074, the number of doubles' smallest steps (2^-1074) in 1: 81 limbs.
TwoTo1074 ==
    <<4784, 9349, 7410, 7707, 6330, 62, 8646, 2750, 1863, 2532, 3050, 6152,
      3414, 5233, 7695, 2358, 5651, 8100, 6340, 5955, 6491, 3355, 1810, 6986,
      4692, 8342, 74, 8562, 4506, 4727, 7678, 3976, 3412, 3216, 4209, 9077,
      4466, 6136, 5663, 4276, 1742, 9215, 8509, 4073, 3999, 7013, 7686, 7934,
      7385, 873, 3898, 1911, 1681, 8643, 7077, 9518, 1244, 1437, 8370, 9603,
      6891, 9534, 5679, 339, 2743, 3580, 6901, 1835, 1421, 9764, 5664, 495,
      7307, 1891, 3467, 2495, 1835, 3106, 3307, 225, 2024>>

\* 5^1074 (the smallest step 2^-1074 is 5^1074 * 10^-1074): 188 limbs.
FiveTo1074 ==
    <<5625, 4726, 5334, 8265, 1971, 5064, 8682, 8753, 2290, 4565, 6754, 2427,
      279, 3709, 7026, 4205, 4116, 8099, 3664, 9899, 7335, 7389, 5583, 2509,
      8167, 6273, 378, 1451, 9110, 5048, 9131, 5119, 6605, 5125, 1758, 6777,
      7972, 4701, 5336, 9699, 3446, 2037, 4778, 5608, 8746, 7247, 7592, 7763,
      4730, 8252, 9049, 9247, 1832, 2773, 8342, 5307, 8097, 6169, 1150, 1060,
      8060, 5836, 8934, 2382, 3609, 4319, 832, 3572, 7533, 6844, 3222, 7033,
      7491, 710, 2681, 3790, 2019, 9347, 5264, 4803, 5013, 6115, 5238, 5935,
      7801, 4726, 6901, 1478, 4757, 2452, 5633, 416, 908, 9894, 1931, 9954,
      7099, 129, 2748, 4011, 6544, 545, 3293, 2455, 9149, 2715, 1945, 2493,
      3106, 9560, 8703, 7681, 6686, 5855, 266, 1171, 6559, 2385, 4126, 9807,
      3853, 1715, 4003, 6151, 3169, 9727, 4733, 7312, 8438, 5649, 9153, 8740,
      63, 3050, 3072, 9987, 6056, 1863, 6887, 2103, 4898, 1678, 5817, 2784,
      4045, 311, 1319, 3007, 8126, 8187, 107, 4796, 9877, 7963, 5939, 1035,
      6567, 926, 1773, 4457, 4695, 9656, 3797, 5992, 6163, 8363, 5299, 5186,
      2087, 7270, 7550, 5006, 5682, 2558, 7644, 4324, 261, 598, 2365, 2137,
      8682, 8792, 7656, 5441, 1246, 4584, 656, 494>>

LimbAt(L, i) == IF i >= 1 /\ i <= Len(L) THEN L[i] ELSE 0

\* The product L * m, for an int m with 0 <= m < 2^31, limb by limb.
\* RawLimb is limb i before any carry (below 3 * 10^8), part j being what
\* limb j of m gives it; each of the next two passes keeps the low four
\* digits of a limb and adds what the limb below carries, leaving limbs of
\* 10002 at most, so that a last carry is 0 or 1 and runs through limbs that
\* are 9999 only.
RawLimb(L, m, i) ==
    LET part[j \in 0..2] == LimbAt(L, i - j) * ((m \div Pow10(4 * j)) % 10000)
    IN  part[0] + part[1] + part[2]

\* Limb i of the limbs f after one pass.
Carried(f, i) == (f[i] % 10000) + (f[i - 1] \div 10000)

FirstPass(L, m, i) == Carried([j \in {i - 1, i} |-> RawLimb(L, m, j)], i)
SecondPass(L, m, i) == Carried([j \in {i - 1, i} |-> FirstPass(L, m, j)], i)

\* Limb i of the limbs f (each 10002 at most) after the last carry: below
\* limb i, the nearest limb that is not 9999 carries or does not.
Settled(f, i) ==
    LET d == CHOOSE d \in 1..i : f[i - d] # 9999 /\ \A q \in 1..(d - 1) : f[i - q] = 9999
    IN  (f[i] + (IF f[i - d] >= 10000 THEN 1 ELSE 0)) % 10000

\* Limb i of L * m, for i >= 1
ProductLimb(L, m, i) == Settled([j \in 0..i |-> SecondPass(L, m, j)], i)

\* The decimal digit of L * m at position i (0 is the units digit).
DigitAt(L, m, i) == (ProductLimb(L, m, i \div 4 + 1) \div Pow10(i % 4)) % 10

\* The number of decimal digits of a number whose top limb is limb n, n + 1,
\* n + 2 or n + 3 of limb.
DigitsTo(limb, n) ==
    LET top == CHOOSE k \in n..(n + 3) : limb[k] # 0 /\ \A q \in (k + 1)..(n + 3) : limb[q] = 0
    IN  4 * (top - 1) + CHOOSE c \in 1..4 : limb[top] \div Pow10(c - 1) \in 1..9

\* The number of decimal digits of L * m, for m > 0 (the top limb of L is
\* not 0, so the top limb of the product is its limb Len(L) or one of the
\* three above).
NumDigits(L, m) == DigitsTo([k \in Len(L)..(Len(L) + 3) |-> ProductLimb(L, m, k)], Len(L))

\* The number written by the digits of L * m at positions i .. i + count - 1.
RECURSIVE DigitsFrom(_, _, _, _)
DigitsFrom(L, m, i, count) ==
    IF count = 0 THEN 0
    ELSE DigitAt(L, m, i) + 10 * DigitsFrom(L, m, i + 1, count - 1)

\* floor(L * m / 10^i), for m > 0 and i >= 0
Above(L, m, i) ==
    CHOOSE r \in {IF i >= digits THEN 0 ELSE DigitsFrom(L, m, i, digits - i) :
                  digits \in {NumDigits(L, m)}} : TRUE

\* ---- rounding to a double
\* The number of trailing zeros and of digits of an int m > 0.
TrailingZeros(m) ==
    CHOOSE z \in 0..9 : m % Pow10(z) = 0 /\ (z = 9 \/ m % Pow10(z + 1) # 0)
DigitCount(m) == CHOOSE d \in 1..10 : m >= Pow10(d - 1) /\ (d = 10 \/ m < Pow10(d))

\* The float written sign * n * 10^e: n without trailing zeros, except that
\* a whole number below 2^31 is written with e = 0.
Decimal(sign, n, e) ==
    LET z == TrailingZeros(n)
        m == n \div Pow10(z)
        x == e + z
    IN  IF x > 0 /\ x <= 9 /\ m <= 2147483647 \div Pow10(x)
        THEN FloatV(sign * m * Pow10(x))
        ELSE [t |-> "float", k |-> "num", n |-> sign * m, e |-> x]

\* The multiple of 2^-1074 nearest c * 10^g, for c > 0 and g < 0
\* (c * 2^1074 / 10^-g is never half way between two: 5^-g does not divide
\* c).
Units(c, g) ==
    Above(TwoTo1074, c, 0 - g) + (IF DigitAt(TwoTo1074, c, 0 - g - 1) >= 5 THEN 1 ELSE 0)

\* The shortest decimal, of p digits or more, that rounds to k * 2^-1074,
\* and of those the nearest to it (the decimal repr() writes, so one double
\* has one record).  k * 2^-1074 is k * 5^1074 * 10^-1074, a number of
\* digits digits; lo is its first p digits, and rounds tells which of lo and
\* lo + 1, both times 10^(digits - p - 1074), round to k * 2^-1074.
RECURSIVE Shortest(_, _, _)
ShortestOf(k, p, digits, lo, rounds) ==
    IF rounds[lo + 1] /\ (DigitAt(FiveTo1074, k, digits - p - 1) >= 5 \/ ~rounds[lo])
    THEN [n |-> lo + 1, e |-> digits - p - 1074]
    ELSE IF rounds[lo] THEN [n |-> lo, e |-> digits - p - 1074]
    ELSE Shortest(k, p + 1, digits)

ShortestNear(k, p, digits, lo) ==
    ShortestOf(k, p, digits, lo, [c \in {lo, lo + 1} |-> Units(c, digits - p - 1074) = k])

Shortest(k, p, digits) == ShortestNear(k, p, digits, Above(FiveTo1074, k, digits - p))

\* The double k * 2^-1074 with the given sign, for k >= 0.
Subnormal(sign, k) ==
    IF k = 0 THEN FloatV(0)
    ELSE CHOOSE r \in {Decimal(sign, s.n, s.e) :
                       s \in {Shortest(k, 1, NumDigits(FiveTo1074, k))}} : TRUE

\* The double nearest m * 10^e, as float() rounds a literal of up to ten
\* digits: at or above 2^1024 - 2^970 (1.797693134862315807e308) it is an
\* infinity, at or below 2^-1075 (2.47e-324) it is zero, below 1e-314 it is
\* the nearest multiple of 2^-1074, and from 1e-314 on doubles are finer than
\* ten digits and the literal is its own shortest decimal.
FloatDec(m, e) ==
    IF m = 0 THEN FloatV(0)
    ELSE LET sign == IF m < 0 THEN -1 ELSE 1
             z == TrailingZeros(sign * m)
             n == (sign * m) \div Pow10(z)
             x == e + z
             d == DigitCount(n)
             top == x + d - 1
         IN  IF \/ top > 308
                \/ /\ top = 308
                   /\ IF d = 10 THEN n >= 1797693135 ELSE n * Pow10(9 - d) >= 179769314
             THEN FloatInf(sign)
             ELSE IF top < -324 THEN FloatV(0)
             ELSE IF top >= -314 THEN Decimal(sign, n, x)
             ELSE CHOOSE r \in {Subnormal(sign, k) : k \in {Units(n, x)}} : TRUE

StrV(s) == [t |-> "str", s |-> s]
ListV(items) == [t |-> "list", items |-> items]
\* The key names a dict of the model can hold.
MapKeys == <<"trees", "coordinates", "x", "y">>

\* A dict holding (some of) the keys "trees", "coordinates", "x", "y",
\* inserted in the order of inserted (a sequence naming every key it holds).
MapOrdered(inserted, trees, coordinates, x, y) ==
    LET held == [trees |-> trees, coordinates |-> coordinates, x |-> x, y |-> y]
    IN  [t |-> "map",
         order |-> SelectSeq(inserted, LAMBDA k : held[k] # Absent),
         trees |-> trees, coordinates |-> coordinates, x |-> x, y |-> y]

\* The dict written {"trees": ..., "coordinates": ..., "x": ..., "y": ...}.
MapV(trees, coordinates, x, y) == MapOrdered(MapKeys, trees, coordinates, x, y)
EmptyMap == MapV(Absent, Absent, Absent, Absent)

Ok(v) == [ok |-> TRUE, val |-> v]
Raise(e) == [ok |-> FALSE, err |-> e]

\* isinstance(v, Mapping)
IsMapping(v) == v.t = "map"

\* k in m, for a dict m
HasKey(m, k) == m[k] # Absent

\* m.get(k, default), for a dict m
Get(m, k, default) == IF HasKey(m, k) THEN m[k] ELSE default

\* The characters of a key name.
KeyChars(k) ==
    CASE k = "trees" -> <<"t", "r", "e", "e", "s">>
      [] k = "coordinates" -> <<"c", "o", "o", "r", "d", "i", "n", "a", "t", "e", "s">>
      [] k = "x" -> <<"x">>
      [] k = "y" -> <<"y">>

\* needle in hay, for two strs (substring test)
IsSubstring(needle, hay) ==
    \E k \in 0..(Len(hay) - Len(needle)) : SubSeq(hay, k + 1, k + Len(needle)) = needle

Digits == <<"0", "1", "2", "3", "4", "5", "6", "7", "8", "9">>

IsDigit(c) == \E d \in 1..10 : Digits[d] = c

DigitVal(c) == (CHOOSE d \in 1..10 : Digits[d] = c) - 1

\* The number the first k characters of s, all digits, write in decimal.
RECURSIVE DecimalUpTo(_, _)
DecimalUpTo(s, k) ==
    IF k = 0 THEN 0 ELSE 10 * DecimalUpTo(s, k - 1) + DigitVal(s[k])

\* The number a run of digits writes in decimal (s is evaluated once).
DecimalVal(s) == CHOOSE r \in {DecimalUpTo(d, Len(d)) : d \in {s}} : TRUE

\* The characters float() drops around a literal, of those below U+0100: tab,
\* line feed, vertical tab (U+000B, written raw), form feed, carriage
\* return, space, next line (U+0085, raw) and no-break space (U+00A0, raw).
\* U+001C to U+001F are not among them.
Whitespace == {"\t", "\n", "", "\f", "\r", " ", "", " "}

\* s without the whitespace float() drops at its two ends
Strip(s) ==
    LET inked == {k \in 1..Len(s) : s[k] \notin Whitespace}
    IN  IF inked = {} THEN <<>>
        ELSE SubSeq(s, CHOOSE k \in inked : \A q \in inked : k <= q,
                       CHOOSE k \in inked : \A q \in inked : k >= q)

UpperCase == <<"A", "B", "C", "D", "E", "F", "G", "H", "I", "J", "K", "L", "M",
               "N", "O", "P", "Q", "R", "S", "T", "U", "V", "W", "X", "Y", "Z">>
LowerCase == <<"a", "b", "c", "d", "e", "f", "g", "h", "i", "j", "k", "l", "m",
               "n", "o", "p", "q", "r", "s", "t", "u", "v", "w", "x", "y", "z">>

Lower(c) ==
    IF \E k \in 1..26 : UpperCase[k] = c
    THEN LowerCase[CHOOSE k \in 1..26 : UpperCase[k] = c]
    ELSE c

\* digitpart of a float literal: digits, single underscores between them
IsDigitPart(s) ==
    /\ s # <<>>
    /\ \A k \in 1..Len(s) :
          \/ IsDigit(s[k])
          \/ /\ s[k] = "_"
             /\ k > 1
             /\ k < Len(s)
             /\ IsDigit(s[k - 1])
             /\ IsDigit(s[k + 1])

DigitsOf(s) == SelectSeq(s, IsDigit)

\* The first index of s holding a character of cs, 0 when there is none.
FirstOf(s, cs) ==
    IF \E k \in 1..Len(s) : s[k] \in cs
    THEN CHOOSE k \in 1..Len(s) : s[k] \in cs /\ \A q \in 1..(k - 1) : s[q] \notin cs
    ELSE 0

\* A literal without its sign, cut at its exponent marker and at its point.
LiteralParts(sign, body) ==
    LET expAt == FirstOf(body, {"e", "E"})
        mant == IF expAt = 0 THEN body ELSE SubSeq(body, 1, expAt - 1)
        expo == IF expAt = 0 THEN <<>> ELSE SubSeq(body, expAt + 1, Len(body))
        expSigned == expo # <<>> /\ expo[1] \in {"+", "-"}
        dotAt == FirstOf(mant, {"."})
    IN  [sign |-> sign,
         word |-> [k \in 1..Len(body) |-> Lower(body[k])],
         whole |-> IF dotAt = 0 THEN mant ELSE SubSeq(mant, 1, dotAt - 1),
         frac |-> IF dotAt = 0 THEN <<>> ELSE SubSeq(mant, dotAt + 1, Len(mant)),
         hasExp |-> expAt # 0,
         expSign |-> IF expSigned /\ expo[1] = "-" THEN -1 ELSE 1,
         expDigits |-> IF expSigned THEN Tail(expo) ELSE expo]

\* A stripped literal, cut after its sign.
SignedParts(b) ==
    IF b # <<>> /\ b[1] \in {"+", "-"}
    THEN LiteralParts(IF b[1] = "-" THEN -1 ELSE 1, Tail(b))
    ELSE LiteralParts(1, b)

\* The float a cut literal writes.
LiteralValue(p) ==
    IF p.word \in {<<"i", "n", "f">>, <<"i", "n", "f", "i", "n", "i", "t", "y">>}
    THEN Ok(FloatInf(p.sign))
    ELSE IF p.word = <<"n", "a", "n">> THEN Ok(FloatNan)
    ELSE IF /\ p.whole = <<>> \/ IsDigitPart(p.whole)
            /\ p.frac = <<>> \/ IsDigitPart(p.frac)
            /\ p.whole # <<>> \/ p.frac # <<>>
            /\ ~p.hasExp \/ IsDigitPart(p.expDigits)
    THEN Ok(FloatDec(p.sign * DecimalVal(DigitsOf(p.whole) \o DigitsOf(p.frac)),
                     p.expSign * DecimalVal(DigitsOf(p.expDigits))
                         - Len(DigitsOf(p.frac))))
    ELSE Raise("ValueError")

\* float(s) for a str s: surrounding whitespace is dropped; then a sign, and
\* inf, infinity or nan in any case, or a decimal literal
\*   digitpart ["." [digitpart]] [exponent]  |  "." digitpart [exponent]
\* with exponent ("e" | "E") [sign] digitpart; anything else is a ValueError.
\* (Each stage works on the value of the one before.)  Strs hold
\* characters below U+0100 (above it float() also takes the other Unicode
\* spaces and decimal digits), and the digits of a literal, read as one
\* number, and its exponent stay below 2^31, as do the digits of the
\* result: such a literal has ten digits at most, and FloatDec rounds it as
\* float() does.
ParseFloat(s) ==
    CHOOSE r \in {LiteralValue(p) : p \in {SignedParts(b) : b \in {Strip(s)}}} : TRUE

\* float(v): an int converts to the float of its value, a float is itself,
\* a str is parsed, and anything else is a TypeError.
float(v) ==
    CASE v.t = "int" -> Ok(FloatV(v.n))
      [] v.t = "float" -> Ok(v)
      [] v.t = "str" -> ParseFloat(v.s)
      [] OTHER -> Raise("TypeError")

\* float(data.get("x", 0)), float(data.get("y", 0)): x is converted first,
\* and the first conversion that raises ends the call.
XYOf(data) ==
    LET converted[k \in {"x", "y"}] == float(Get(data, k, IntV(0)))
    IN  IF ~converted["x"].ok THEN converted["x"]
        ELSE IF ~converted["y"].ok THEN converted["y"]
        ELSE Ok(<<converted["x"].val, converted["y"].val>>)

\* "coordinates" in tree_like: a key test on a dict, an element test on a
\* list, a substring test on a str, a TypeError on anything else.
InCoordinates(tree_like) ==
    CASE tree_like.t = "map" -> Ok(HasKey(tree_like, "coordinates"))
      [] tree_like.t = "list" ->
            Ok(\E k \in 1..Len(tree_like.items) :
                  tree_like.items[k] = StrV(KeyChars("coordinates")))
      [] tree_like.t = "str" -> Ok(IsSubstring(KeyChars("coordinates"), tree_like.s))
      [] OTHER -> Raise("TypeError")

\* _extract_coordinate without the nested schema (mutant).
ExtractDirectOnly(tree_like) ==
    IF tree_like.t = "map" THEN XYOf(tree_like) ELSE Raise("AttributeError")

\* On a value that is no dict, tree_like["coordinates"] is a TypeError (a
\* list or a str that holds "coordinates") and tree_like.get an
\* AttributeError; on a dict, x and y are read from the "coordinates"
\* sub-mapping when there is one (line 53) and from the dict itself
\* otherwise.
_extract_coordinate(tree_like) ==
    LET has == InCoordinates(tree_like)
    IN  IF ~has.ok THEN has
        ELSE IF tree_like.t # "map"
        THEN Raise(IF has.val THEN "TypeError" ELSE "AttributeError")
        ELSE XYOf(IF has.val /\ IsMapping(tree_like.coordinates)
                  THEN tree_like.coordinates
                  ELSE tree_like)

\* for tree in trees: the elements a value yields when iterated (a dict
\* yields its keys in insertion order).
Iterate(v) ==
    CASE v.t = "list" -> Ok(v.items)
      [] v.t = "str" -> Ok([k \in 1..Len(v.s) |-> StrV(<<v.s[k]>>)])
      [] v.t = "map" -> Ok([k \in 1..Len(v.order) |-> StrV(KeyChars(v.order[k]))])
      [] OTHER -> Raise("TypeError")

\* dict[str, ResourceGroup], which only ever holds the key "trees"
NoGroups == [k \in {} |-> Absent]
ResourceGroup(resource_type, coordinates) ==
    [resource_type |-> resource_type, coordinates |-> coordinates]

\* grouped.setdefault("trees", ResourceGroup("trees", [])).coordinates.append(coords)
AppendTree(grouped, coords) ==
    LET group == IF "trees" \in DOMAIN grouped
                 THEN grouped["trees"]
                 ELSE ResourceGroup("trees", <<>>)
    IN  [k \in {"trees"} |-> ResourceGroup(group.resource_type, Append(group.coordinates, coords))]

\* The loop of parse_resource_groups over items k..Len(items), from grouped.
RECURSIVE GroupFrom(_, _, _)
GroupFrom(items, k, grouped) ==
    IF k > Len(items) THEN Ok(grouped)
    ELSE LET coords == _extract_coordinate(items[k])
         IN  IF ~coords.ok THEN coords
             ELSE GroupFrom(items, k + 1, AppendTree(grouped, coords.val))

\* parse_resource_groups without the isinstance check (mutant).
ParseUnchecked(data) ==
    IF ~IsMapping(data) THEN Raise("AttributeError")
    ELSE LET items == Iterate(Get(data, "trees", ListV(<<>>)))
         IN  IF ~items.ok THEN items ELSE GroupFrom(items.val, 1, NoGroups)

parse_resource_groups(data) ==
    LET trees == IF IsMapping(data) THEN Get(data, "trees", ListV(<<>>)) ELSE ListV(<<>>)
        items == Iterate(trees)
    IN  IF ~items.ok THEN items ELSE GroupFrom(items.val, 1, NoGroups)

\* ------------------------------------------------------------ policy
AxesThreshold == 10
GoldThreshold == 500

\* n * 10^e > bound, for a finite float and an int bound: with e > 0 the
\* float is beyond every int of the model; otherwise its whole part decides,
\* and its fraction when the whole part is the bound.
FloatGreater(v, bound) ==
    IF v.e > 0 THEN v.n > 0
    ELSE LET small == 0 - v.e > 9
             whole == IF small THEN (IF v.n < 0 THEN -1 ELSE 0) ELSE v.n \div Pow10(0 - v.e)
             fraction == IF small THEN v.n # 0 ELSE v.n % Pow10(0 - v.e) # 0
         IN  whole > bound \/ (whole = bound /\ fraction)

\* v > bound, for a Python value v and an int bound
GreaterThan(v, bound) ==
    CASE v.t = "int" -> Ok(v.n > bound)
      [] v.t = "float" ->
            Ok(CASE v.k = "num" -> FloatGreater(v, bound)
                 [] v.k = "inf" -> v.n > 0
                 [] v.k = "nan" -> FALSE)
      [] OTHER -> Raise("TypeError")

\* The policy with >= for > (mutant).
PurchaseAtThreshold(inv) ==
    LET byAxes == GreaterThan(Get(inv, "axes", IntV(0)), AxesThreshold - 1)
    IN  IF ~byAxes.ok THEN byAxes
        ELSE IF byAxes.val THEN Ok(TRUE)
        ELSE GreaterThan(Get(inv, "gold", IntV(0)), GoldThreshold - 1)

\* The policy with and for or (mutant).
PurchaseWhenBoth(inv) ==
    LET byAxes == GreaterThan(Get(inv, "axes", IntV(0)), AxesThreshold)
    IN  IF ~byAxes.ok THEN byAxes
        ELSE IF ~byAxes.val THEN Ok(FALSE)
        ELSE GreaterThan(Get(inv, "gold", IntV(0)), GoldThreshold)

\* An inventory is a dict over the item names "axes", "gold" and "wood".
should_purchase_axes(inv) ==
    LET axes == Get(inv, "axes", IntV(0))
        gold == Get(inv, "gold", IntV(0))
        byAxes == GreaterThan(axes, AxesThreshold)
    IN  IF ~byAxes.ok THEN byAxes
        ELSE IF byAxes.val THEN Ok(TRUE)
        ELSE GreaterThan(gold, GoldThreshold)

\* ------------------------------------------------------------ fetch
\* What the remote service answers: nothing (the request fails in the
\* network), or a status with a body that is JSON or not.
NoResponse == [arrived |-> FALSE, status |-> 0, body |-> Absent]
Response(status, body) == [arrived |-> TRUE, status |-> status, body |-> body]
NotJson == [t |-> "notjson"]

\* response.raise_for_status(): an HTTPError for a 4xx or 5xx status
raise_for_status(r) == r.status >= 400 /\ r.status < 600

fetch_farm_data(r) ==
    IF ~r.arrived THEN Raise("ConnectionError")
    ELSE IF raise_for_status(r) THEN Raise("HTTPError")
    ELSE IF r.body = NotJson THEN Raise("JSONDecodeError")
    ELSE Ok(r.body)

\* ------------------------------------------------------------ inputs
ClicksPerTree == 3

\* Values of the "x" and "y" keys of a tree entry: missing, two ints, the
\* strs "12", "\v4e1 " (a vertical tab before, a space after), "1e-400" (too
\* small for a double: 0.0), "13e-324" (between two doubles: 1.5e-323) and
\* "a" (no number), and None.
Scalars ==
    {Absent, IntV(3), IntV(4), StrV(<<"1", "2">>), StrV(<<"", "4", "e", "1", " ">>),
     StrV(<<"1", "e", "-", "4", "0", "0">>), StrV(<<"1", "3", "e", "-", "3", "2", "4">>),
     StrV(<<"a">>), Null}

\* Every tree entry that is a dict over "coordinates", "x" and "y".
TreeLikes ==
    {MapV(Absent, c, x, y) :
        c \in {Absent, IntV(5)} \cup {MapV(Absent, Absent, cx, cy) : cx, cy \in Scalars},
        x \in Scalars, y \in Scalars}

\* The tree entries of the responses of a run: both schemas, an entry with
\* neither, an entry with both, an entry whose "x" is no number, and an
\* entry that is no dict.
TreeEntries ==
    { MapV(Absent, Absent, IntV(3), IntV(4)),
      MapV(Absent, MapV(Absent, Absent, IntV(4), StrV(<<"1", "2">>)), IntV(3), Absent),
      EmptyMap,
      MapV(Absent, Absent, StrV(<<"a">>), IntV(4)),
      IntV(7) }

RECURSIVE SeqsUpTo(_, _)
SeqsUpTo(S, n) ==
    IF n = 0 THEN {<<>>}
    ELSE LET shorter == SeqsUpTo(S, n - 1)
         IN  shorter \cup {Append(q, e) : q \in {p \in shorter : Len(p) = n - 1}, e \in S}

\* Farm data with a "trees" list.
TreeFarms == {MapV(ListV(q), Absent, Absent, Absent) : q \in SeqsUpTo(TreeEntries, MaxTrees)}

\* Farm data that is no dict, or a dict with no "trees" key.
TreelessFarms ==
    { Null, IntV(5), ListV(<<>>), ListV(<<EmptyMap>>), StrV(<<"a">>),
      EmptyMap, MapV(Absent, Absent, IntV(3), IntV(4)),
      MapV(Absent, MapV(Absent, Absent, IntV(3), IntV(4)), Absent, Absent) }

\* Farm data whose "trees" is no list.
OddFarms ==
    { MapV(Null, Absent, Absent, Absent),
      MapV(IntV(5), Absent, Absent, Absent),
      MapV(StrV(<<>>), Absent, Absent, Absent),
      MapV(StrV(<<"a", "b">>), Absent, Absent, Absent),
      MapV(EmptyMap, Absent, Absent, Absent),
      MapV(MapV(Absent, Absent, IntV(3), Absent), Absent, Absent, Absent),
      MapV(MapV(Absent, IntV(5), Absent, Absent), Absent, Absent, Absent),
      MapV(MapV(Absent, IntV(5), IntV(3), Absent), Absent, Absent, Absent),
      MapV(MapOrdered(<<"x", "coordinates">>, Absent, IntV(5), IntV(3), Absent),
           Absent, Absent, Absent) }

FarmDatas == TreeFarms \cup TreelessFarms \cup OddFarms

\* Farm data handed to parse_resource_groups by a direct caller.
ParseInputs == FarmDatas \cup {MapV(ListV(<<e>>), Absent, Absent, Absent) : e \in TreeLikes}

Statuses == {200, 300, 404, 500}

Responses == {NoResponse} \cup {Response(s, b) : s \in Statuses, b \in {NotJson} \cup FarmDatas}

InventoryMap(axes, gold, wood) == [t |-> "map", axes |-> axes, gold |-> gold, wood |-> wood]

Inventories ==
    {InventoryMap(a, g, w) :
        a \in {Absent, IntV(10), IntV(11), Null},
        g \in {Absent, IntV(500), IntV(501), Null},
        w \in {Absent, IntV(999)}}

Coordinates == {<<FloatV(0), FloatV(0)>>, <<FloatV(3), FloatV(4)>>}

StoreCoordinates == {<<FloatV(0), FloatV(0)>>, <<FloatV(640), FloatV(360)>>}

\* ------------------------------------------------------------ state
VARIABLES
    entry,              \* the function of the module the caller invoked
    pc,                 \* the statement control is at, or "done", "returned", "raised"
    exc,                \* the exception being propagated, or "none"
    inventory,          \* argument of run_bot
    store_coordinate,   \* argument of run_bot
    response,           \* the answer requests.get received
    requests,           \* number of requests issued
    calls,              \* the module functions called so far, in order
    farm_data,
    resources,
    purchase,           \* what should_purchase_axes returned, Absent before the call
    tree_coordinates,
    tree,               \* index of the coordinate chop_trees is at (from 1)
    rep,                \* clicks already issued on that coordinate
    pw,                 \* the sync_playwright() manager: none, started, failed, stopped
    ctx,                \* the browser context: none, open, closed
    page,               \* the page: none, blank, loaded
    log                 \* the browser calls issued so far, in order

vars == <<entry, pc, exc, inventory, store_coordinate, response, requests, calls,
          farm_data, resources, purchase, tree_coordinates, tree, rep, pw, ctx, page, log>>

NoCoordinate == <<>>
Event(op, at, ok) == [op |-> op, at |-> at, ok |-> ok]

Init ==
    /\ entry = "run_bot"
    /\ pc = "fetch"
    /\ exc = "none"
    /\ inventory \in Inventories
    /\ store_coordinate \in StoreCoordinates
    /\ response = NoResponse
    /\ requests = 0
    /\ calls = <<>>
    /\ farm_data = Absent
    /\ resources = NoGroups
    /\ purchase = Absent
    /\ tree_coordinates = <<>>
    /\ tree = 1
    /\ rep = 0
    /\ pw = "none"
    /\ ctx = "none"
    /\ page = "none"
    /\ log = <<>>

\* ------------------------------------------------------------ run_bot
\* An exception inside the with block running context.close() first (mutant).
PropagateClosing(e, inWith) ==
    /\ exc' = e
    /\ pc' = IF inWith THEN "close" ELSE "raised"

\* Where control goes when a statement of the entry function raises e: out of
\* the with block first (sync_playwright().__exit__) when inside it.
Propagate(e, inWith) ==
    /\ exc' = e
    /\ pc' = IF inWith THEN "exit" ELSE "raised"

\* farm_data = fetch_farm_data(farm_id=farm_id, api_key=api_key)
Fetch ==
    /\ pc = "fetch"
    /\ \E r \in Responses :
        LET got == fetch_farm_data(r)
        IN  /\ response' = r
            /\ requests' = requests + 1
            /\ calls' = Append(calls, "fetch_farm_data")
            /\ IF got.ok
               THEN farm_data' = got.val /\ pc' = "parse" /\ exc' = exc
               ELSE farm_data' = farm_data /\ Propagate(got.err, FALSE)
    /\ UNCHANGED <<entry, inventory, store_coordinate, resources, purchase, tree_coordinates,
                   tree, rep, pw, ctx, page, log>>

\* resources = parse_resource_groups(farm_data)
Parse ==
    /\ pc = "parse"
    /\ LET got == parse_resource_groups(farm_data)
       IN  /\ calls' = Append(calls, "parse_resource_groups")
           /\ IF got.ok
              THEN /\ resources' = got.val
                   /\ pc' = IF entry = "run_bot" THEN "policy" ELSE "returned"
                   /\ exc' = exc
              ELSE resources' = resources /\ Propagate(got.err, FALSE)
    /\ UNCHANGED <<entry, inventory, store_coordinate, response, requests, farm_data,
                   purchase, tree_coordinates, tree, rep, pw, ctx, page, log>>

\* if not should_purchase_axes(inventory): return
Policy ==
    /\ pc = "policy"
    /\ LET got == should_purchase_axes(inventory)
       IN  /\ purchase' = got
           /\ calls' = Append(calls, "should_purchase_axes")
           /\ IF got.ok
              THEN pc' = (IF got.val THEN "trees" ELSE "done") /\ exc' = exc
              ELSE Propagate(got.err, FALSE)
    /\ UNCHANGED <<entry, inventory, store_coordinate, response, requests, farm_data,
                   resources, tree_coordinates, tree, rep, pw, ctx, page, log>>

\* tree_coordinates = resources.get("trees", ResourceGroup("trees", [])).coordinates
\* if not tree_coordinates: return
SelectTrees ==
    /\ pc = "trees"
    /\ tree_coordinates' = (IF "trees" \in DOMAIN resources
                            THEN resources["trees"]
                            ELSE ResourceGroup("trees", <<>>)).coordinates
    /\ pc' = IF tree_coordinates' = <<>> THEN "done" ELSE "playwright"
    /\ UNCHANGED <<entry, exc, inventory, store_coordinate, response, requests, calls,
                   farm_data, resources, purchase, tree, rep, pw, ctx, page, log>>

\* with sync_playwright() as playwright:
EnterPlaywright ==
    /\ pc = "playwright"
    /\ \E ok \in BOOLEAN :
        IF ok
        THEN pw' = "started" /\ pc' = "context" /\ exc' = exc
        ELSE pw' = "failed" /\ Propagate("Error", FALSE)
    /\ UNCHANGED <<entry, inventory, store_coordinate, response, requests, calls,
                   farm_data, resources, purchase, tree_coordinates, tree, rep, ctx, page, log>>

\* context = create_browser_context(playwright, profile_dir)
CreateContext ==
    /\ pc = "context"
    /\ \E ok \in BOOLEAN :
        /\ log' = Append(log, Event("launch_persistent_context", NoCoordinate, ok))
        /\ IF ok
           THEN ctx' = "open" /\ pc' = "new_page" /\ exc' = exc
           ELSE ctx' = ctx /\ Propagate("Error", TRUE)
    /\ calls' = Append(calls, "create_browser_context")
    /\ UNCHANGED <<entry, inventory, store_coordinate, response, requests, farm_data,
                   resources, purchase, tree_coordinates, tree, rep, pw, page>>

\* go_to_game returning the new page without navigating (mutant).
NewPageOnly ==
    /\ pc = "new_page"
    /\ \E ok \in BOOLEAN :
        /\ log' = Append(log, Event("new_page", NoCoordinate, ok))
        /\ IF ok
           THEN page' = "blank" /\ pc' = "store" /\ exc' = exc
           ELSE page' = page /\ exc' = "Error" /\ pc' = "exit"
    /\ calls' = Append(calls, "go_to_game")
    /\ UNCHANGED <<entry, inventory, store_coordinate, response, requests, farm_data,
                   resources, purchase, tree_coordinates, tree, rep, pw, ctx>>

\* page = context.new_page(), the first statement of go_to_game
NewPage ==
    /\ pc = "new_page"
    /\ \E ok \in BOOLEAN :
        /\ log' = Append(log, Event("new_page", NoCoordinate, ok))
        /\ IF ok
           THEN page' = "blank" /\ pc' = "goto" /\ exc' = exc
           ELSE page' = page /\ Propagate("Error", TRUE)
    /\ calls' = Append(calls, "go_to_game")
    /\ UNCHANGED <<entry, inventory, store_coordinate, response, requests, farm_data,
                   resources, purchase, tree_coordinates, tree, rep, pw, ctx>>

\* page.goto(..., wait_until="domcontentloaded"), then go_to_game returns
Goto ==
    /\ pc = "goto"
    /\ \E ok \in BOOLEAN :
        /\ log' = Append(log, Event("goto", NoCoordinate, ok))
        /\ IF ok
           THEN page' = "loaded" /\ pc' = "store" /\ exc' = exc
           ELSE page' = page /\ Propagate("Error", TRUE)
    /\ UNCHANGED <<entry, inventory, store_coordinate, response, requests, calls,
                   farm_data, resources, purchase, tree_coordinates, tree, rep, pw, ctx>>

\* The click with x and y swapped (mutant).
StoreClickSwapped(at, ok) == Event("click", <<at[2], at[1]>>, ok)

\* x, y = store_coordinate; page.mouse.click(x, y)
StoreClick(at, ok) == Event("click", at, ok)

\* click_store_for_axes(page, store_coordinate); when it returns, chop_trees
\* is called
ClickStore ==
    /\ pc = "store"
    /\ \E ok \in BOOLEAN :
        /\ log' = Append(log, StoreClick(store_coordinate, ok))
        /\ IF ok
           THEN /\ pc' = "chop"
                /\ exc' = exc
                /\ calls' = calls \o <<"click_store_for_axes", "chop_trees">>
           ELSE /\ Propagate("Error", TRUE)
                /\ calls' = Append(calls, "click_store_for_axes")
    /\ tree' = 1
    /\ rep' = 0
    /\ UNCHANGED <<entry, inventory, store_coordinate, response, requests, farm_data,
                   resources, purchase, tree_coordinates, pw, ctx, page>>

\* Every iteration at the first coordinate (mutant).
ChopTargetFirst(coords, k) == coords[1]

\* for x, y in tree_coordinates: the coordinate of iteration number k
ChopTarget(coords, k) == coords[k]

\* One page.mouse.click(x, y) of chop_trees: click number rep + 1 on
\* coordinate number tree.
ChopClick ==
    /\ pc = "chop"
    /\ tree <= Len(tree_coordinates)
    /\ \E ok \in BOOLEAN :
        /\ log' = Append(log, Event("click", ChopTarget(tree_coordinates, tree), ok))
        /\ IF ok
           THEN /\ rep' = (rep + 1) % ClicksPerTree
                /\ tree' = IF rep + 1 = ClicksPerTree THEN tree + 1 ELSE tree
                /\ pc' = pc
                /\ exc' = exc
           ELSE /\ rep' = rep
                /\ tree' = tree
                /\ Propagate("Error", entry = "run_bot")
    /\ UNCHANGED <<entry, inventory, store_coordinate, response, requests, calls,
                   farm_data, resources, purchase, tree_coordinates, pw, ctx, page>>

\* The outer loop of chop_trees is exhausted: chop_trees returns.
ChopReturn ==
    /\ pc = "chop"
    /\ tree > Len(tree_coordinates)
    /\ pc' = IF entry = "run_bot" THEN "close" ELSE "returned"
    /\ UNCHANGED <<entry, exc, inventory, store_coordinate, response, requests, calls,
                   farm_data, resources, purchase, tree_coordinates, tree, rep, pw, ctx, page, log>>

\* context.close()
CloseContext ==
    /\ pc = "close"
    /\ \E ok \in BOOLEAN :
        /\ log' = Append(log, Event("close", NoCoordinate, ok))
        /\ IF ok
           THEN ctx' = "closed" /\ exc' = exc
           ELSE ctx' = ctx /\ exc' = "Error"
    /\ pc' = "exit"
    /\ UNCHANGED <<entry, inventory, store_coordinate, response, requests, calls,
                   farm_data, resources, purchase, tree_coordinates, tree, rep, pw, page>>

\* The with block is left, normally or by an exception: the manager stops
\* playwright and a pending exception goes on to the caller.
ExitPlaywright ==
    /\ pc = "exit"
    /\ pw' = "stopped"
    /\ pc' = IF exc = "none" THEN "done" ELSE "raised"
    /\ UNCHANGED <<entry, exc, inventory, store_coordinate, response, requests, calls,
                   farm_data, resources, purchase, tree_coordinates, tree, rep, ctx, page, log>>

Next ==
    \/ Fetch
    \/ Parse
    \/ Policy
    \/ SelectTrees
    \/ EnterPlaywright
    \/ CreateContext
    \/ NewPage
    \/ Goto
    \/ ClickStore
    \/ ChopClick
    \/ ChopReturn
    \/ CloseContext
    \/ ExitPlaywright

Spec == Init /\ [][Next]_vars

\* ------------------------------------------------------------ direct calls
\* parse_resource_groups called on its own.
InitParse ==
    /\ entry = "parse_resource_groups"
    /\ pc = "parse"
    /\ exc = "none"
    /\ inventory = InventoryMap(Absent, Absent, Absent)
    /\ store_coordinate = <<FloatV(0), FloatV(0)>>
    /\ response = NoResponse
    /\ requests = 0
    /\ calls = <<>>
    /\ farm_data \in ParseInputs
    /\ resources = NoGroups
    /\ purchase = Absent
    /\ tree_coordinates = <<>>
    /\ tree = 1
    /\ rep = 0
    /\ pw = "none"
    /\ ctx = "none"
    /\ page = "none"
    /\ log = <<>>

NextParse == Parse

SpecParse == InitParse /\ [][NextParse]_vars

\* chop_trees called on its own, with a page of the caller's.
InitChop ==
    /\ entry = "chop_trees"
    /\ pc = "chop"
    /\ exc = "none"
    /\ inventory = InventoryMap(Absent, Absent, Absent)
    /\ store_coordinate = <<FloatV(0), FloatV(0)>>
    /\ response = NoResponse
    /\ requests = 0
    /\ calls = <<"chop_trees">>
    /\ farm_data = Absent
    /\ resources = NoGroups
    /\ purchase = Absent
    /\ tree_coordinates \in SeqsUpTo(Coordinates, MaxChop)
    /\ tree = 1
    /\ rep = 0
    /\ pw = "started"
    /\ ctx = "open"
    /\ page = "loaded"
    /\ log = <<>>

NextChop == ChopClick \/ ChopReturn

SpecChop == InitChop /\ [][NextChop]_vars

\* ------------------------------------------------------------ properties
Terminal == pc \in {"done", "raised", "returned"}

\* The indices of the browser calls of the log that are named in ops.
Issued(ops) == {k \in 1..Len(log) : log[k].op \in ops}

IsPrefix(p, q) == Len(p) <= Len(q) /\ \A k \in 1..Len(p) : p[k] = q[k]

\* A count of the inventory is a number, or the key is missing.
IsCount(v) == v.t \in {"absent", "int"}

\* The policy as the specification words it: axes > 10 or gold > 500, a
\* missing key counting as 0.
CountOf(v) == IF v = Absent THEN 0 ELSE v.n
PolicySays(inv) ==
    \/ IsCount(inv.axes) /\ CountOf(inv.axes) > 10
    \/ IsCount(inv.gold) /\ CountOf(inv.gold) > 500

\* The session of a run that harvests coords: the context, the page, the
\* navigation, one store click, three clicks a coordinate, the close.
ExpectedSession(store, coords) ==
    << Event("launch_persistent_context", NoCoordinate, TRUE),
       Event("new_page", NoCoordinate, TRUE),
       Event("goto", NoCoordinate, TRUE),
       Event("click", store, TRUE) >>
    \o [k \in 1..(3 * Len(coords)) |-> Event("click", coords[((k - 1) \div 3) + 1], TRUE)]
    \o << Event("close", NoCoordinate, TRUE) >>

NoBrowserFailure == pw # "failed" /\ \A k \in 1..Len(log) : log[k].ok

\* C1: in a run of run_bot whose fetch succeeded, whose policy is true, whose
\* farm data yields n >= 1 tree coordinates and in which no browser step
\* failed, the browser calls issued so far are the first calls of: create the
\* context, open the page, navigate, click the store once, click each tree
\* coordinate three times in discovery order, close; and when the run has
\* ended it ended normally with exactly that sequence (1 + 3n clicks).
C1_FullSession ==
    LET groups == parse_resource_groups(farm_data)
    IN  ( /\ farm_data # Absent
          /\ should_purchase_axes(inventory) = Ok(TRUE)
          /\ groups.ok
          /\ "trees" \in DOMAIN groups.val
          /\ NoBrowserFailure )
        => LET expected == ExpectedSession(store_coordinate, groups.val["trees"].coordinates)
           IN  /\ IsPrefix(log, expected)
               /\ Terminal =>
                    /\ pc = "done"
                    /\ log = expected
                    /\ Cardinality(Issued({"click"})) = 1 + 3 * Len(groups.val["trees"].coordinates)

C1_Witness ==
    /\ pc = "done"
    /\ Len(tree_coordinates) = 2
    /\ tree_coordinates[1] # tree_coordinates[2]
    /\ Len(log) = 11
    /\ log[Len(log)].op = "close"

\* C2: a browser call is issued, or playwright started, only in a run whose
\* policy is true and whose "trees" group is non-empty; a run whose policy is
\* false, or is true with no tree coordinates, ends normally with no browser
\* call and no context.
C2_BrowserOnlyWhenPolicyAndTrees ==
    /\ (log # <<>> \/ pw # "none" \/ ctx # "none" \/ page # "none") =>
          /\ PolicySays(inventory)
          /\ "trees" \in DOMAIN resources
          /\ resources["trees"].coordinates # <<>>
    /\ ( /\ Terminal
         /\ purchase # Absent
         /\ IsCount(inventory.axes)
         /\ IsCount(inventory.gold)
         /\ \/ ~PolicySays(inventory)
            \/ "trees" \notin DOMAIN resources ) =>
          /\ pc = "done"
          /\ exc = "none"
          /\ log = <<>>
          /\ pw = "none"
          /\ ctx = "none"

C2_Witness ==
    /\ pc = "done"
    /\ PolicySays(inventory)
    /\ farm_data # Absent
    /\ IsMapping(farm_data)
    /\ farm_data.trees = ListV(<<>>)
    /\ log = <<>>

\* C3: for an inventory whose counts are numbers, should_purchase_axes
\* returns true exactly when axes > 10 or gold > 500, a missing key counting
\* as 0 and no other key mattering; so it is false at axes = 10, at
\* gold = 500 and for the empty inventory.
C3_PurchasePolicy ==
    (purchase # Absent /\ IsCount(inventory.axes) /\ IsCount(inventory.gold)) =>
        /\ purchase = Ok(PolicySays(inventory))
        /\ (inventory.axes \in {Absent, IntV(10)} /\ inventory.gold \in {Absent, IntV(500)}) =>
              purchase = Ok(FALSE)

C3_Witness ==
    /\ purchase = Ok(FALSE)
    /\ inventory.axes = IntV(10)
    /\ inventory.gold = IntV(500)
    /\ inventory.wood # Absent

\* C4: chop_trees called with n coordinates issues only clicks, click number
\* k (from 0) at coordinate number floor(k / 3) of the sequence, never more
\* than 3n of them, and when no click fails it returns after exactly 3n.
C4_ThreeClicksEach ==
    /\ Len(log) <= 3 * Len(tree_coordinates)
    /\ \A k \in 1..Len(log) :
          /\ log[k].op = "click"
          /\ log[k].at = tree_coordinates[((k - 1) \div 3) + 1]
    /\ (Terminal /\ NoBrowserFailure) =>
          /\ pc = "returned"
          /\ Len(log) = 3 * Len(tree_coordinates)

C4_Witness ==
    /\ pc = "returned"
    /\ Len(tree_coordinates) = 3
    /\ tree_coordinates[1] # tree_coordinates[2]
    /\ Len(log) = 9

\* C5: for farm data that is no mapping, or a mapping with no "trees" key,
\* parse_resource_groups raises nothing and returns the empty mapping.
C5_NoTreesNoGroups ==
    (Terminal /\ (~IsMapping(farm_data) \/ farm_data.trees = Absent)) =>
        /\ pc = "returned"
        /\ exc = "none"
        /\ DOMAIN resources = {}

C5_Witness ==
    /\ pc = "returned"
    /\ ~IsMapping(farm_data)
    /\ farm_data.t = "list"
    /\ farm_data.items # <<>>

\* C6 as claimed: for farm data whose "trees" list has n >= 1 entries,
\* parse_resource_groups returns a mapping whose only key is "trees", whose
\* group has resource_type "trees" and n coordinates, coordinate i being the
\* one extracted from entry i.  (It does not hold: an entry that is no
\* mapping, or whose "x" or "y" is no number, makes the call raise.)
C6_TreesInOrder ==
    ( /\ Terminal
      /\ IsMapping(farm_data)
      /\ farm_data.trees.t = "list"
      /\ farm_data.trees.items # <<>> ) =>
        /\ pc = "returned"
        /\ exc = "none"
        /\ DOMAIN resources = {"trees"}
        /\ resources["trees"].resource_type = "trees"
        /\ Len(resources["trees"].coordinates) = Len(farm_data.trees.items)
        /\ \A k \in 1..Len(farm_data.trees.items) :
              Ok(resources["trees"].coordinates[k]) =
                  _extract_coordinate(farm_data.trees.items[k])

\* What a call that has ended gave: the first coordinate of the "trees"
\* group it returned, or the exception it raised.
FirstCoordinate ==
    IF pc = "raised" THEN Raise(exc) ELSE Ok(resources["trees"].coordinates[1])

\* C7: the coordinate of a tree entry is read from its "coordinates"
\* sub-mapping when it has one, and from the entry itself otherwise, a
\* missing "x" or "y" giving 0; so an entry with neither form gives (0, 0),
\* and {"x": a, "y": b} gives what {"coordinates": {"x": a, "y": b}} gives.
C7_TwoSchemas ==
    ( /\ Terminal
      /\ IsMapping(farm_data)
      /\ farm_data.trees.t = "list"
      /\ Len(farm_data.trees.items) = 1
      /\ IsMapping(farm_data.trees.items[1]) ) =>
        LET e == farm_data.trees.items[1]
            from == IF IsMapping(e.coordinates) THEN e.coordinates ELSE e
        IN  /\ (IsCount(from.x) /\ IsCount(from.y)) =>
                  FirstCoordinate = Ok(<<FloatV(CountOf(from.x)), FloatV(CountOf(from.y))>>)
            /\ e.coordinates = Absent =>
                  FirstCoordinate =
                      _extract_coordinate(
                          MapV(Absent, MapV(Absent, Absent, e.x, e.y), Absent, Absent))

C7_Witness ==
    /\ pc = "returned"
    /\ IsMapping(farm_data)
    /\ farm_data.trees.t = "list"
    /\ Len(farm_data.trees.items) = 1
    /\ farm_data.trees.items[1] =
          MapV(Absent, MapV(Absent, Absent, IntV(4), Absent), IntV(3), IntV(3))
    /\ resources["trees"].coordinates = << <<FloatV(4), FloatV(0)>> >>

\* One request at most, issued by the first call of the run, before the
\* policy is evaluated.
OneFetchFirst ==
    /\ requests <= 1
    /\ calls # <<>> => (calls[1] = "fetch_farm_data" /\ requests = 1)
    /\ \A k \in 2..Len(calls) : calls[k] # "fetch_farm_data"
    /\ purchase # Absent => requests = 1

\* The run ended in an error right after its one request.
EndedAtFetch ==
    /\ pc = "raised"
    /\ exc # "none"
    /\ requests = 1
    /\ calls = <<"fetch_farm_data">>
    /\ purchase = Absent
    /\ pw = "none"
    /\ ctx = "none"
    /\ log = <<>>

\* C8: every run issues exactly one request, first and before the
\* policy, and a request that fails in the network or is answered with a
\* status that is no success (no 2xx) ends the run in an error with no
\* retry, no classification, no policy evaluation and no browser context.
C8_AnyNonSuccessStatusFails ==
    /\ OneFetchFirst
    /\ (requests = 1 /\ (~response.arrived \/ response.status < 200 \/ response.status > 299))
          => EndedAtFetch

\* C9: a failed browser call is the last one issued; and in a run that has
\* ended and had created a context, close was called (once, as the last
\* browser call) exactly when no page, navigation or click call failed, a
\* failure ending the run in an error with the context still open and close
\* never called.
C9_CloseOnlyOnNormalPath ==
    LET created == \E k \in Issued({"launch_persistent_context"}) : log[k].ok
        failed == \E k \in Issued({"new_page", "goto", "click"}) : ~log[k].ok
        closes == Issued({"close"})
    IN  /\ \A k \in 1..(Len(log) - 1) : log[k].ok
        /\ Cardinality(closes) <= 1
        /\ (pc \in {"done", "raised"} /\ created) =>
              /\ (closes = {Len(log)}) <=> ~failed
              /\ failed =>
                    /\ pc = "raised"
                    /\ exc # "none"
                    /\ ~log[Len(log)].ok
                    /\ closes = {}
                    /\ ctx = "open"

C9_Witness ==
    /\ pc = "raised"
    /\ ctx = "open"
    /\ Len(tree_coordinates) = 2
    /\ Len(log) = 9
    /\ log[9].op = "click"
    /\ ~log[9].ok
    /\ Issued({"close"}) = {}

\* C10: in every state of a run, at most one browser context has been
\* created, and every click issued so far came after the context was created
\* and the navigation completed, and before any close, the context being open
\* and the page loaded while clicks are still to come.
C10_ClicksInsideSession ==
    /\ Cardinality(Issued({"launch_persistent_context"})) <= 1
    /\ \A k \in Issued({"click"}) :
          /\ \E c \in 1..(k - 1) : log[c].op = "launch_persistent_context" /\ log[c].ok
          /\ \E g \in 1..(k - 1) : log[g].op = "goto" /\ log[g].ok
          /\ \A m \in 1..(k - 1) : log[m].op # "close"
    /\ pc \in {"store", "chop"} => (ctx = "open" /\ page = "loaded")
    /\ ctx = "closed" => pc \in {"exit", "done"}

C10_Witness ==
    /\ pc = "raised"
    /\ Cardinality(Issued({"click"})) = 3
    /\ ~log[Len(log)].ok
    /\ ctx = "open"
    /\ page = "loaded"

====
